---- MODULE Spec2Model ----
(***************************************************************************)
(* Model of the fiat automation pipeline of PasaTanda PayBE:               *)
(*   JobQueueService        (src/modules/fiat/services/job-queue.service)  *)
(*   FiatAutomationService  (src/modules/fiat/fiat-automation.service)     *)
(*   FiatService            (src/modules/fiat/fiat.service)                *)
(* The promise chain of JobQueueService.enqueue is modelled explicitly:    *)
(* every task remembers the tail promise it was chained on.                *)
(***************************************************************************)
EXTENDS Integers, Sequences, FiniteSets, TLC

VARIABLES now, processedJobs, tail, tasks, notifier, log, lastCall,
          code, setCodes, submitted, written, reads,
          browser, context, page, initializing, launches, procs, callers,
          broken, op, oplog

\* TwoFaStoreService.code, and history variables: the number of setCode
\* calls so far, the codes typed into the portal's step-up prompt, the
\* arguments of the direct setCode calls and the results of the direct
\* consumeCode calls
storeVars == <<code, setCodes, submitted, written, reads>>

\* FiatBrowserService: the fields browser, context, page and initializing
\* (0 is null / undefined, k is the object made by the k-th launch), the
\* launch promises created so far, the Chromium process of each launch,
\* where each caller of ensurePage stands, and a history variable: the
\* sessions on whose page an operation has failed
browserVars == <<browser, context, page, initializing, launches, procs,
                 callers, broken, op, oplog>>

\* the session handles, as opposed to op, the browser operation in progress
\* followed step by step, and oplog, the warnings the service has logged
sessionVars == <<browser, context, page, initializing, launches, procs,
                 callers, broken>>

\* the state of the job queue, the orchestrator and the store
fiatVars == <<now, processedJobs, tail, tasks, notifier, log,
              code, setCodes, submitted, written, reads>>

vars == <<now, processedJobs, tail, tasks, notifier, log, lastCall,
          code, setCodes, submitted, written, reads,
          browser, context, page, initializing, launches, procs, callers,
          broken, op, oplog>>

(* ---------------------------- bounds ----------------------------------- *)
MaxTasks == 2
MaxSetCodes == 2
MaxLaunches == 3
MaxReads == 2

OrderIds == {"ORD-1", "ORD-2"}
Details == {"GLOSA-A", "GLOSA-B"}

(* ---------------------- program constants ------------------------------ *)
JOB_EXPIRY_MS == 24 * 60 * 60 * 1000

\* the instants (Date.now(), ms) at which the model looks at the system:
\* they put a gap of 24h - 1ms, of exactly 24h and of 24h + 1ms between calls
Instants == {0, 1, JOB_EXPIRY_MS, JOB_EXPIRY_MS + 1}

(* ------------------------- TwoFaStoreService --------------------------- *)

\* strings of the store are sequences of characters; NULL is JavaScript's
\* null / undefined
NULL == <<"null">>

\* what setCode is called with, and what 2FACODE is configured to
CodeInputs == {<<"1", "2", "3", "4">>, <<" ", "5", "6", "7", "8", " ">>, <<" ">>}
ConfigCodes == {NULL, <<" ", "0", "0", "0", "0">>}

RECURSIVE TrimStart(_)
TrimStart(str) ==
  IF str # << >> /\ Head(str) = " " THEN TrimStart(Tail(str)) ELSE str

RECURSIVE TrimEnd(_)
TrimEnd(str) ==
  IF str # << >> /\ str[Len(str)] = " "
    THEN TrimEnd(SubSeq(str, 1, Len(str) - 1))
    ELSE str

\* String.prototype.trim
Trim(str) == TrimEnd(TrimStart(str))

\* constructor, lines 106-110
InitialCode(cfg) ==
  IF cfg # NULL /\ Len(Trim(cfg)) > 0 THEN Trim(cfg) ELSE NULL

\* setCode, lines 112-114
setCode(input) == Trim(input)

\* line 113: the assignment replaces whatever the slot held
writeSlotIfEmpty(c, input) ==
  IF c # NULL /\ c # << >> THEN c ELSE setCode(input)
writeSlot(c, input) == setCode(input)

\* consumeCode, lines 116-120: the value returned and the slot afterwards
consumeCodePeek(c) == [ret |-> c, code |-> c]
consumeCode(c) == [ret |-> c, code |-> NULL]

\* hasCode, lines 122-124
hasCode(c) == c # NULL /\ c # << >> /\ Len(Trim(c)) > 0

(* ------------------------- FiatBrowserService -------------------------- *)

\* handleTwoFactor, part_007 lines 270-293: whether TwoFactorRequiredError
\* is thrown, the slot afterwards and the code typed into the prompt
handleTwoFactorNoHasCode(c, needsTwoFa) ==
  IF ~needsTwoFa
    THEN [thrown |-> FALSE, code |-> c, fill |-> NULL]
  ELSE LET r == consumeCode(c)
       IN IF r.ret = NULL \/ r.ret = << >>
            THEN [thrown |-> TRUE, code |-> r.code, fill |-> NULL]
            ELSE [thrown |-> FALSE, code |-> r.code, fill |-> r.ret]
handleTwoFactorConsumesFirst(c, needsTwoFa) ==
  LET r == consumeCode(c)
  IN IF ~needsTwoFa
       THEN [thrown |-> FALSE, code |-> r.code, fill |-> NULL]
     ELSE IF r.ret = NULL \/ r.ret = << >>
       THEN [thrown |-> TRUE, code |-> r.code, fill |-> NULL]
     ELSE [thrown |-> FALSE, code |-> r.code, fill |-> r.ret]
handleTwoFactorKeepsCode(c, needsTwoFa) ==
  IF ~needsTwoFa
    THEN [thrown |-> FALSE, code |-> c, fill |-> NULL]
  ELSE IF ~hasCode(c)
    THEN [thrown |-> TRUE, code |-> c, fill |-> NULL]
  ELSE [thrown |-> FALSE, code |-> c, fill |-> c]
handleTwoFactor(c, needsTwoFa) ==
  IF ~needsTwoFa
    THEN [thrown |-> FALSE, code |-> c, fill |-> NULL]
  ELSE IF ~hasCode(c)
    THEN [thrown |-> TRUE, code |-> c, fill |-> NULL]
  ELSE LET r == consumeCode(c)
       IN IF r.ret = NULL \/ r.ret = << >>
            THEN [thrown |-> TRUE, code |-> r.code, fill |-> NULL]
            ELSE [thrown |-> FALSE, code |-> r.code, fill |-> r.ret]

\* concurrent callers of ensurePage
Callers == {"a", "b"}

\* a caller: where it stands, the launch or context it waits on, whether it
\* is in the catch of ensurePage, and the page ensurePage returned to it
Idle == [at |-> "idle", on |-> 0, retry |-> FALSE, page |-> 0]

\* isBrowserActive, lines 217-223
isBrowserActive(b, ctx, ps) ==
  IF b = 0 \/ ctx = 0 THEN FALSE ELSE ps[b] = "open"

\* resetBrowserState, lines 225-229
resetBrowserState == [browser |-> 0, context |-> 0, page |-> 0]

\* ensureBrowser, lines 188-195: what a call does on entry
ensureBrowserNoSingleFlight(active, init) ==
  IF active THEN "return" ELSE "launch"
ensureBrowserEntry(active, init) ==
  IF active THEN "return"
  ELSE IF init # 0 THEN "await"
  ELSE "launch"

\* ensurePage, lines 158-160: the existing page is returned when it is open
ensurePageNeverReuses(p, ps) == "open"
ensurePageEntry(p, ps) ==
  IF p # 0 /\ ps[p] = "open" THEN "reuse" ELSE "open"

\* ensurePage, lines 167-181: a newPage failure inside the try is caught and
\* followed by a relaunch, one in the catch is thrown to the caller
afterNewPageFailureAlways(retry) == "relaunch"
afterNewPageFailure(retry) == IF retry THEN "throw" ELSE "relaunch"

\* browser.close() as called by onModuleDestroy: an open browser is closed;
\* on a browser that is already closed or disconnected the call resolves
\* without effect
close(ps, k) ==
  [ps EXCEPT ![k] = IF @ = "open" THEN "closed" ELSE @]

\* onModuleDestroy, lines 138-142: the processes afterwards and whether the
\* call raised
onModuleDestroyUnguarded(b, ps) ==
  IF b = 0 THEN [procs |-> ps, raised |-> TRUE]
  ELSE [procs |-> close(ps, b), raised |-> FALSE]
onModuleDestroy(b, ps) ==
  IF b # 0 THEN [procs |-> close(ps, b), raised |-> FALSE]
  ELSE [procs |-> ps, raised |-> FALSE]

\* a launch promise that has not settled
Pending(stage) == stage \in {"launching", "context"}

\* the owner of launch k resumes from `await this.initializing` (lines
\* 213-214): after a fulfilment it clears the field and goes on to open a
\* page in the new context; after a rejection it throws past the assignment
OwnerResumes(k, stage) ==
  [c \in Callers |->
     IF callers[c].at = "own" /\ callers[c].on = k
       THEN [callers[c] EXCEPT
               !.at = IF stage = "fulfilled" THEN "newPage" ELSE "threw"]
       ELSE callers[c]]

\* ----- the steps of one browser operation -----

\* the operation in progress: its arguments, the step it is at and the
\* steps it has been at, whether the login indicator was visible and
\* whether the step-up prompt was, the memo and the download it read, the
\* value it returned and, when it failed, the error and the step it left at
NoOperation ==
  [kind |-> "none", details |-> << >>, pc |-> "idle", trace |-> << >>,
   login |-> FALSE, prompt |-> FALSE,
   memo |-> << >>, bytes |-> << >>, out |-> << >>, saved |-> "none",
   ret |-> "none", error |-> "none"]

\* the details a verification or a QR is asked for
OpDetails == {<<"X">>, <<"Y", "Z">>}

\* inner text of the Glosa cell of the latest movement
Memos == {<<"B", "M", " ", "Q", "R", " ", "X">>,
          <<" ", "B", "M", " ", "Q", "R", " ", "Y", "Z", " ">>,
          <<"X">>,
          <<"B", "M", " ", "Q", "R">>}

\* bytes of a downloaded QR.png
Downloads == {<<137, 80>>, <<255, 216, 255>>, <<7>>}

\* the literal 'BM QR' of verifyPayment, line 124
BM_QR == <<"B", "M", " ", "Q", "R">>

\* String.prototype.includes
Includes(hay, needle) ==
  \E i \in 1..(Len(hay) - Len(needle) + 1) :
    SubSeq(hay, i, i + Len(needle) - 1) = needle

\* verifyPayment, lines 122-124: the comparison of the memo
verifyPaymentMatchDetailsOnly(innerText, details) ==
  Includes(Trim(innerText), details)
verifyPaymentMatch(innerText, details) ==
  LET glosaValue == Trim(innerText)
  IN Includes(glosaValue, BM_QR) /\ Includes(glosaValue, details)

\* Buffer.toString('base64'): the 6-bit digits of the encoding, 64 for '='
RECURSIVE toBase64(_)
toBase64(b) ==
  IF Len(b) = 0 THEN << >>
  ELSE IF Len(b) = 1
    THEN <<b[1] \div 4, (b[1] % 4) * 16, 64, 64>>
  ELSE IF Len(b) = 2
    THEN <<b[1] \div 4, (b[1] % 4) * 16 + b[2] \div 16, (b[2] % 16) * 4, 64>>
  ELSE <<b[1] \div 4, (b[1] % 4) * 16 + b[2] \div 16,
         (b[2] % 16) * 4 + b[3] \div 64, b[3] % 64>>
       \o toBase64(SubSeq(b, 4, Len(b)))

\* dismissAnnouncementModalIfPresent, lines 310-345: the click is inside a
\* try whose catch warns and returns
dismissAnnouncementModalIfPresent(visible, clickOk, hidden) ==
  IF ~visible THEN [threw |-> FALSE, warned |-> {}]
  ELSE IF ~clickOk
    THEN [threw |-> FALSE, warned |-> {"announcement click failed"}]
  ELSE IF ~hidden
    THEN [threw |-> FALSE, warned |-> {"announcement not hidden"}]
  ELSE [threw |-> FALSE, warned |-> {}]

\* dismissModalIfPresent, lines 295-308: the clicks are awaited bare
dismissModalIfPresent(modalVisible, acceptOk, decisionVisible, decisionOk) ==
  IF modalVisible /\ ~acceptOk THEN [threw |-> TRUE, warned |-> {}]
  ELSE IF decisionVisible /\ ~decisionOk THEN [threw |-> TRUE, warned |-> {}]
  ELSE [threw |-> FALSE, warned |-> {}]

\* persistQrImage, lines 396-411: mkdir and writeFile are inside a try whose
\* catch warns
persistQrImageUnguarded(mkdirOk, writeOk) ==
  IF mkdirOk /\ writeOk
    THEN [threw |-> FALSE, saved |-> "saved", warned |-> {}]
    ELSE [threw |-> TRUE, saved |-> "failed", warned |-> {}]
persistQrImage(mkdirOk, writeOk) ==
  IF mkdirOk /\ writeOk
    THEN [threw |-> FALSE, saved |-> "saved", warned |-> {}]
    ELSE [threw |-> FALSE, saved |-> "failed",
          warned |-> {"persist failed"}]

\* downloadToBase64, lines 371-394; hasStream is whether createReadStream
\* gives a stream, stream the content read from it
downloadToBase64(hasStream, stream, mkdirOk, writeOk) ==
  IF ~hasStream
    THEN [threw |-> TRUE, out |-> << >>, saved |-> "none", warned |-> {}]
  ELSE LET persisted == persistQrImage(mkdirOk, writeOk)
       IN [threw |-> persisted.threw,
           out |-> IF persisted.threw THEN << >> ELSE toBase64(stream),
           saved |-> persisted.saved,
           warned |-> persisted.warned]

\* the operation leaves with an error at the step it is at
Fails(o, error) == [o EXCEPT !.error = error, !.ret = "raised"]

\* the operation moves on to its next step
Goes(o, next) == [o EXCEPT !.pc = next, !.trace = Append(@, next)]

\* the step that follows a dismissAnnouncementModalIfPresent: ensureSession
\* lines 150-154, runLoginFlow line 267, generateQr lines 75-76 and
\* verifyPayment lines 110-111
afterAnnouncementSkipsLogin(o) ==
  IF o.pc \in {"announcement", "announcementAfterLogin"}
    THEN "announcementBeforeFlow"
  ELSE IF o.kind = "generateQr" THEN "form" ELSE "movement"
afterAnnouncement(o) ==
  IF o.pc = "announcement"
    THEN (IF o.login THEN "login" ELSE "announcementBeforeFlow")
  ELSE IF o.pc = "announcementAfterLogin" THEN "announcementBeforeFlow"
  ELSE IF o.kind = "generateQr" THEN "form" ELSE "movement"

(* ------------------------- JobQueueService ----------------------------- *)

\* isDuplicate, lines 23-27: a record is deleted when now - timestamp > 24h
ExpiredNever(record, t) == FALSE
ExpiredAtBoundary(record, t) == t - record.timestamp >= JOB_EXPIRY_MS
Expired(record, t) == t - record.timestamp > JOB_EXPIRY_MS

SweepNotInline(jobs, t) == jobs
Sweep(jobs, t) ==
  LET keep == {k \in DOMAIN jobs : ~Expired(jobs[k], t)}
  IN [k \in keep |-> jobs[k]]

\* isDuplicate, lines 29-41, evaluated on the swept map
isDuplicateOrderOnly(jobs, orderId, details, t) ==
  orderId \in DOMAIN Sweep(jobs, t)
isDuplicateDetailsOnly(jobs, orderId, details, t) ==
  \E k \in DOMAIN Sweep(jobs, t) : Sweep(jobs, t)[k].details = details
isDuplicate(jobs, orderId, details, t) ==
  LET swept == Sweep(jobs, t)
  IN \/ orderId \in DOMAIN swept
     \/ \E k \in DOMAIN swept : swept[k].details = details

\* registerJob: Map.set(orderId, {orderId, details, timestamp: Date.now()})
registerJob(jobs, orderId, details, t) ==
  [k \in (DOMAIN jobs) \cup {orderId} |->
     IF k = orderId
       THEN [orderId |-> orderId, details |-> details, timestamp |-> t]
       ELSE jobs[k]]

\* tryRegisterQrJob: the returned boolean and the map it leaves behind
tryRegisterQrJob(jobs, orderId, details, t) ==
  IF isDuplicate(jobs, orderId, details, t)
    THEN [ok |-> FALSE, jobs |-> Sweep(jobs, t)]
    ELSE [ok |-> TRUE, jobs |-> registerJob(Sweep(jobs, t), orderId, details, t)]

Settled(status) == status \in {"resolved", "rejected"}

\* tail = run.then(() => undefined, () => undefined): the state of the tail
\* promise derived from a run promise in the given state
TailOfRunNoRejectHandler(status) ==
  IF status = "resolved" THEN "resolved"
  ELSE IF status = "rejected" THEN "rejected" ELSE "pending"
TailOfRunEager(status) == "resolved"
TailOfRun(status) == IF Settled(status) THEN "resolved" ELSE "pending"

\* promise 0 is the initial Promise.resolve(); promise i is the tail derived
\* from the run of task i
TailState(p) == IF p = 0 THEN "resolved" ELSE TailOfRun(tasks[p].status)

\* enqueue, line 67: the promise the new run is chained on
ChainOn == tail

\* enqueue, lines 68-71: the tail after a task has been appended at index i
NextTailStale(i) == tail
NextTail(i) == i

NewTask(kind, orderId, details, wait) ==
  [kind |-> kind, orderId |-> orderId, details |-> details,
   submittedAt |-> now, prev |-> ChainOn, status |-> "queued",
   outcome |-> "none", wait |-> wait, ret |-> "none", prompt |-> FALSE]

\* prompt: whether the login of the task met the portal's step-up prompt
\* lastCall: what the entry point invoked by the latest step answered its
\* caller ("none" when the latest step was no invocation)
NoCall == "none"

QrKinds == {"processGenerateQr", "generateQr"}
VerifyKinds == {"processVerifyPayment", "verifyPayment"}
DeadlineKinds == {"generateQr", "verifyPayment"}

\* enqueue: append the task to the chain and move the tail
enqueue(task) ==
  [tasks |-> Append(tasks, task), tail |-> NextTail(Len(tasks) + 1)]

SameQueue == [tasks |-> tasks, tail |-> tail]

\* enqueueQrJob, lines 78-96: register, throw ConflictException on a
\* duplicate, enqueue otherwise
enqueueQrJobThenThrow(orderId, details, task) ==
  LET r == tryRegisterQrJob(processedJobs, orderId, details, now)
  IN [result |-> IF r.ok THEN "accepted" ELSE "DuplicateJob",
      jobs |-> r.jobs, q |-> enqueue(task)]
enqueueQrJob(orderId, details, task) ==
  LET r == tryRegisterQrJob(processedJobs, orderId, details, now)
  IN IF r.ok
       THEN [result |-> "accepted", jobs |-> r.jobs, q |-> enqueue(task)]
       ELSE [result |-> "DuplicateJob", jobs |-> r.jobs, q |-> SameQueue]

(* ----------------------- FiatAutomationService ------------------------- *)

\* generateQrWithTimeout, lines 32-48: same registry, then enqueue
generateQrWithTimeoutUnregistered(orderId, details, task) ==
  [result |-> "accepted", jobs |-> processedJobs, q |-> enqueue(task)]
generateQrWithTimeoutSubmit(orderId, details, task) ==
  LET r == tryRegisterQrJob(processedJobs, orderId, details, now)
  IN IF r.ok
       THEN [result |-> "accepted", jobs |-> r.jobs, q |-> enqueue(task)]
       ELSE [result |-> "DuplicateJob", jobs |-> r.jobs, q |-> SameQueue]

\* what the end of a task does to the registry: the catch blocks of
\* processGenerateQr (lines 26-29) and generateQrWithTimeout (lines 52-55)
\* and the normal returns make no call on the registry
registryAfterTaskReleasesOnFailure(jobs, task, outcome) ==
  IF task.kind \in QrKinds /\ outcome \in {"twofa", "error", "throw"}
    THEN [k \in (DOMAIN jobs) \ {task.orderId} |-> jobs[k]]
    ELSE jobs
registryAfterTask(jobs, task, outcome) == jobs

\* FiatService.queueVerifyPayment line 31 and verifyPaymentInline lines
\* 72-74: plain enqueue, whatever the registry holds
verifySubmitExclusive(orderId, details, task) ==
  LET r == tryRegisterQrJob(processedJobs, orderId, details, now)
  IN IF r.ok
       THEN [result |-> "accepted", jobs |-> r.jobs, q |-> enqueue(task)]
       ELSE [result |-> "DuplicateJob", jobs |-> r.jobs, q |-> SameQueue]
verifySubmit(orderId, details, task) ==
  [result |-> "accepted", jobs |-> processedJobs, q |-> enqueue(task)]

Event(type, job) == [type |-> type, job |-> job, delivered |-> TRUE]

\* what axios.post can do with a payload: resolve, or reject / time out
Deliveries == {"ok", "fail"}

\* WebhookService.dispatch, part_004 lines 46-64: the payload is posted; a
\* failed post is logged and dispatch returns normally
dispatchEscalates(event, delivery, st) ==
  [st EXCEPT !.notifier = Append(@, [event EXCEPT !.delivered = delivery = "ok"]),
             !.threw = @ \/ delivery = "fail"]
dispatch(event, delivery, st) ==
  [st EXCEPT !.notifier = Append(@, [event EXCEPT !.delivered = delivery = "ok"]),
             !.log = IF delivery = "fail"
                       THEN @ \cup {[job |-> event.job, by |-> "WebhookService"]}
                       ELSE @]

\* handleAutomationError: TwoFactorRequiredError -> webhook, otherwise log
handleAutomationErrorNotifiesAll(err, job, delivery, st) ==
  dispatch(Event("LOGIN_2FA_REQUIRED", job), delivery, st)
handleAutomationError(err, job, delivery, st) ==
  IF err = "twofa"
    THEN dispatch(Event("LOGIN_2FA_REQUIRED", job), delivery, st)
    ELSE [st EXCEPT !.log = @ \cup {[job |-> job, by |-> "handleAutomationError"]}]

\* FiatService.logAsyncError, reached from the .catch of the queue* methods
logAsyncError(job, st) ==
  [st EXCEPT !.log = @ \cup {[job |-> job, by |-> "logAsyncError"]}]

Failures == {"twofa", "error", "throw"}

\* enqueue, lines 67 and 72: the promise handed back is run, which settles
\* as the promise of task() does and rejects when task() throws
RunOfTaskAsTail(outcome) == "resolved"
RunOfTask(outcome) ==
  IF outcome \in Failures THEN "rejected" ELSE "resolved"

\* what the browser operation behind a task can end with
Outcomes(kind) ==
  IF kind \in QrKinds THEN {"ok", "twofa", "error"}
  ELSE IF kind \in VerifyKinds THEN {"true", "false", "twofa", "error"}
  ELSE {"ok", "error"}

\* value a deadline-bound caller gets from a task that settled in time
\* (generateQrWithTimeout lines 50-55, verifyPaymentInline lines 76-82)
InlineReturnRethrow(kind, outcome) ==
  IF outcome \in Failures THEN "raised"
  ELSE IF kind = "generateQr" THEN "qr"
  ELSE (IF outcome = "true" THEN "true" ELSE "false")
InlineReturn(kind, outcome) ==
  IF kind = "generateQr"
    THEN (IF outcome = "ok" THEN "qr" ELSE "null")
    ELSE (IF outcome = "true" THEN "true" ELSE "false")

\* withTimeout, lines 106-116: the timer wins the race; the caller gets null
\* (Boolean(null) = false in verifyPaymentInline); the task is not touched
withTimeoutNever(task) == task
withTimeoutRejects(task) == [task EXCEPT !.wait = "timeout", !.ret = "raised"]
withTimeoutCancelling(task) ==
  [task EXCEPT !.wait = "timeout", !.status = "rejected",
               !.ret = IF task.kind = "generateQr" THEN "null" ELSE "false"]
withTimeout(task) ==
  [task EXCEPT !.wait = "timeout",
               !.ret = IF task.kind = "generateQr" THEN "null" ELSE "false"]

\* what the settling of task i with an outcome does to notifier and log,
\* given what becomes of the webhook post if one is made
\* processGenerateQr lines 19-30, processVerifyPayment lines 58-66,
\* FiatService.queueGenerateQr / queueVerifyPayment .catch,
\* generateQrWithTimeout lines 50-55, verifyPaymentInline lines 76-82
\* a webhook call that throws inside the try of processGenerateQr /
\* processVerifyPayment is caught like any failure of the task (lines
\* 26-29, 62-65)
AfterSend(i, st) ==
  IF st.threw
    THEN logAsyncError(i, [st EXCEPT !.log =
           @ \cup {[job |-> i, by |-> "handleAutomationError"]}])
    ELSE st

SettleEffects(i, outcome, delivery) ==
  LET t == tasks[i]
      st == [notifier |-> notifier, log |-> log, threw |-> FALSE]
  IN IF t.kind = "processGenerateQr"
       THEN IF outcome = "ok"
              THEN AfterSend(i, dispatch(Event("QR_GENERATED", i), delivery, st))
              ELSE logAsyncError(i, handleAutomationError(outcome, i, delivery, st))
     ELSE IF t.kind = "processVerifyPayment"
       THEN IF outcome \in {"true", "false"}
              THEN AfterSend(i, dispatch(Event("VERIFICATION_RESULT", i),
                                         delivery, st))
              ELSE logAsyncError(i, handleAutomationError(outcome, i, delivery, st))
     ELSE IF t.kind \in DeadlineKinds
       THEN IF t.wait = "waiting" /\ outcome \in Failures
              THEN handleAutomationError(outcome, i, delivery, st)
              ELSE st
     ELSE st

Init ==
  /\ now = 0
  /\ processedJobs = << >>
  /\ tail = 0
  /\ tasks = << >>
  /\ notifier = << >>
  /\ log = {}
  /\ lastCall = NoCall
  /\ code = InitialCode(NULL)
  /\ setCodes = 0
  /\ submitted = << >>
  /\ written = << >>
  /\ reads = << >>
  /\ browser = 0
  /\ context = 0
  /\ page = 0
  /\ broken = {}
  /\ op = NoOperation
  /\ oplog = {}
  /\ initializing = 0
  /\ launches = << >>
  /\ procs = << >>
  /\ callers = [c \in Callers |-> Idle]

\* the state after construction for any configured 2FACODE
InitStore ==
  /\ now = 0
  /\ processedJobs = << >>
  /\ tail = 0
  /\ tasks = << >>
  /\ notifier = << >>
  /\ log = {}
  /\ lastCall = NoCall
  /\ \E cfg \in ConfigCodes : code = InitialCode(cfg)
  /\ setCodes = 0
  /\ submitted = << >>
  /\ written = << >>
  /\ reads = << >>
  /\ browser = 0
  /\ context = 0
  /\ page = 0
  /\ broken = {}
  /\ op = NoOperation
  /\ oplog = {}
  /\ initializing = 0
  /\ launches = << >>
  /\ procs = << >>
  /\ callers = [c \in Callers |-> Idle]

\* FiatService.updateTwoFactorCode
SetCode ==
  /\ setCodes < MaxSetCodes
  /\ \E input \in CodeInputs : code' = writeSlot(code, input)
  /\ setCodes' = setCodes + 1
  /\ lastCall' = NoCall
  /\ UNCHANGED <<now, processedJobs, tail, tasks, notifier, log, submitted,
               written, reads, browserVars>>

\* the wall clock advances
Tick ==
  /\ \E t \in Instants : t > now /\ now' = t
  /\ lastCall' = NoCall
  /\ UNCHANGED <<processedJobs, tail, tasks, notifier, log, code, setCodes, submitted,
               written, reads, browserVars>>

\* FiatService.queueGenerateQr (fire-and-forget entry point)
QueueGenerateQr ==
  \E o \in OrderIds, d \in Details :
    LET r == enqueueQrJob(o, d, NewTask("processGenerateQr", o, d, "na"))
    IN /\ Len(r.q.tasks) <= MaxTasks
       /\ processedJobs' = r.jobs
       /\ tasks' = r.q.tasks
       /\ tail' = r.q.tail
       /\ lastCall' = r.result
       /\ UNCHANGED <<now, notifier, log, code, setCodes, submitted,
               written, reads, browserVars>>

\* FiatAutomationService.generateQrWithTimeout up to its first await
GenerateQrWithTimeout ==
  \E o \in OrderIds, d \in Details :
    LET r == generateQrWithTimeoutSubmit(o, d, NewTask("generateQr", o, d, "waiting"))
    IN /\ Len(r.q.tasks) <= MaxTasks
       /\ processedJobs' = r.jobs
       /\ tasks' = r.q.tasks
       /\ tail' = r.q.tail
       /\ lastCall' = r.result
       /\ UNCHANGED <<now, notifier, log, code, setCodes, submitted,
               written, reads, browserVars>>

\* FiatService.queueVerifyPayment
QueueVerifyPayment ==
  \E o \in {"ORD-1"}, d \in {"GLOSA-A"} :
    LET r == verifySubmit(o, d, NewTask("processVerifyPayment", o, d, "na"))
    IN /\ Len(r.q.tasks) <= MaxTasks
       /\ processedJobs' = r.jobs
       /\ tasks' = r.q.tasks
       /\ tail' = r.q.tail
       /\ lastCall' = r.result
       /\ UNCHANGED <<now, notifier, log, code, setCodes, submitted,
               written, reads, browserVars>>

\* FiatAutomationService.verifyPaymentInline up to its first await
VerifyPaymentInline ==
  \E o \in {"ORD-1"}, d \in {"GLOSA-A"} :
    LET r == verifySubmit(o, d, NewTask("verifyPayment", o, d, "waiting"))
    IN /\ Len(r.q.tasks) <= MaxTasks
       /\ processedJobs' = r.jobs
       /\ tasks' = r.q.tasks
       /\ tail' = r.q.tail
       /\ lastCall' = r.result
       /\ UNCHANGED <<now, notifier, log, code, setCodes, submitted,
               written, reads, browserVars>>

\* JobQueueService.enqueue called with a task of the caller's own
EnqueueTask ==
  LET q == enqueue(NewTask("task", "", "", "na"))
  IN /\ Len(q.tasks) <= MaxTasks
     /\ tasks' = q.tasks
     /\ tail' = q.tail
     /\ lastCall' = "accepted"
     /\ UNCHANGED <<now, processedJobs, notifier, log, code, setCodes, submitted,
               written, reads, browserVars>>

\* the reaction of tail.then(() => task()) once the promise it was chained
\* on has settled: a fulfilled tail calls the task (which may throw before
\* returning a promise), a rejected one rejects the run without calling it
StartTask(i) ==
  /\ tasks[i].status = "queued"
  /\ TailState(tasks[i].prev) # "pending"
  /\ \E throws \in (IF tasks[i].kind = "task" THEN BOOLEAN ELSE {FALSE}) :
       tasks' = [tasks EXCEPT ![i] =
         IF TailState(tasks[i].prev) = "rejected"
           THEN [@ EXCEPT !.status = "rejected", !.outcome = "skipped"]
         ELSE IF throws
           THEN [@ EXCEPT !.status = RunOfTask("throw"), !.outcome = "throw"]
         ELSE [@ EXCEPT !.status = "running"]]
  /\ lastCall' = NoCall
  /\ UNCHANGED <<now, processedJobs, tail, notifier, log, code, setCodes, submitted,
               written, reads, browserVars>>

\* the promise returned by the task settles; the continuations that were
\* waiting on it (webhook, .catch, the deadline-bound caller) run. The
\* browser operation of the task has gone through ensureSession: when the
\* login met the step-up prompt (needsTwoFa) it has been through
\* handleTwoFactor, and it ends with StepUpRequired exactly when that threw
SettleWith(i, delivery) ==
  /\ tasks[i].status = "running"
  /\ \E outcome \in Outcomes(tasks[i].kind),
        needsTwoFa \in (IF tasks[i].kind = "task" THEN {FALSE} ELSE BOOLEAN) :
       LET eff == SettleEffects(i, outcome, delivery)
           delivered == tasks[i].wait = "waiting"
           login == handleTwoFactor(code, needsTwoFa)
           \* the task of a fire-and-forget job includes its webhook call
           failed == \/ RunOfTask(outcome) = "rejected"
                     \/ eff.threw /\ tasks[i].kind \notin DeadlineKinds
       IN /\ (outcome = "twofa") <=> login.thrown
          /\ delivery = "fail" => Len(eff.notifier) > Len(notifier)
          /\ tasks' = [tasks EXCEPT ![i] =
               [@ EXCEPT !.status = IF failed THEN "rejected" ELSE "resolved",
                         !.outcome = outcome,
                         !.prompt = needsTwoFa,
                         !.wait = IF delivered THEN "returned" ELSE @,
                         !.ret = IF ~delivered THEN @
                                 ELSE IF eff.threw THEN "raised"
                                 ELSE InlineReturn(tasks[i].kind, outcome)]]
          /\ processedJobs' = registryAfterTask(processedJobs, tasks[i], outcome)
          /\ notifier' = eff.notifier
          /\ log' = eff.log
          /\ code' = login.code
          /\ submitted' = IF login.fill = NULL THEN submitted
                          ELSE Append(submitted,
                                      [gen |-> setCodes, value |-> login.fill])
  /\ lastCall' = NoCall
  /\ UNCHANGED <<now, tail, setCodes, written, reads, browserVars>>

\* the task settles and the webhook post it leads to, if any, is delivered
SettleTask(i) == SettleWith(i, "ok")

\* the task settles and the webhook post it leads to fails
SettleTaskUndelivered(i) == SettleWith(i, "fail")

\* the timer of withTimeout fires before the task has settled
Timeout(i) ==
  /\ tasks[i].kind \in DeadlineKinds
  /\ tasks[i].wait = "waiting"
  /\ ~Settled(tasks[i].status)
  /\ tasks' = [tasks EXCEPT ![i] = withTimeout(@)]
  /\ lastCall' = NoCall
  /\ UNCHANGED <<now, processedJobs, tail, notifier, log, code, setCodes, submitted,
               written, reads, browserVars>>

Start == \E i \in 1..Len(tasks) : StartTask(i)
Settle == \E i \in 1..Len(tasks) : SettleTask(i)
SettleUndelivered == \E i \in 1..Len(tasks) : SettleTaskUndelivered(i)
TimerFires == \E i \in 1..Len(tasks) : Timeout(i)

\* ensureBrowser, lines 187-215, up to its first await, for a call that
\* finds the handles b and ctx; when the browser is active the caller goes
\* on to context.newPage (lines 163-168, 176-180)
EnsureBrowser(c, b, ctx, retry) ==
  LET entry == ensureBrowserEntry(isBrowserActive(b, ctx, procs), initializing)
      me(at, on) == [at |-> at, on |-> on, retry |-> retry, page |-> 0]
  IN \/ /\ entry = "return"
        /\ callers' = [callers EXCEPT ![c] = me("newPage", ctx)]
        /\ UNCHANGED <<initializing, launches, procs>>
     \/ /\ entry = "await"
        /\ callers' = [callers EXCEPT ![c] = me("await", initializing)]
        /\ UNCHANGED <<initializing, launches, procs>>
     \/ /\ entry = "launch"
        /\ Len(launches) < MaxLaunches
        /\ launches' = Append(launches, "launching")
        /\ procs' = Append(procs, "none")
        /\ initializing' = Len(launches) + 1
        /\ callers' = [callers EXCEPT ![c] = me("own", Len(launches) + 1)]

\* a browser operation starts: ensureSession calls ensurePage (lines 157-165)
EnsurePage(c) ==
  /\ callers[c].at = "idle"
  /\ IF ensurePageEntry(page, procs) = "reuse"
       THEN /\ callers' = [callers EXCEPT ![c] =
                            [Idle EXCEPT !.at = "using", !.page = page]]
            /\ UNCHANGED <<initializing, launches, procs>>
       ELSE EnsureBrowser(c, browser, context, FALSE)
  /\ lastCall' = NoCall
  /\ UNCHANGED <<browser, context, page, broken, fiatVars, op, oplog>>

\* chromium.launch resolves (line 201): the browser handle is stored and
\* newContext is requested
LaunchResolves(k) ==
  /\ launches[k] = "launching"
  /\ launches' = [launches EXCEPT ![k] = "context"]
  /\ procs' = [procs EXCEPT ![k] = "open"]
  /\ browser' = k
  /\ lastCall' = NoCall
  /\ UNCHANGED <<context, page, initializing, callers, broken, fiatVars, op, oplog>>

\* browser.newContext resolves (line 202): the launch promise is fulfilled
\* and its owner clears `initializing` (line 214)
ContextResolves(k) ==
  /\ launches[k] = "context"
  /\ launches' = [launches EXCEPT ![k] = "fulfilled"]
  /\ context' = k
  /\ initializing' = IF \E c \in Callers :
                          callers[c].at = "own" /\ callers[c].on = k
                       THEN 0 ELSE initializing
  /\ callers' = OwnerResumes(k, "fulfilled")
  /\ lastCall' = NoCall
  /\ UNCHANGED <<browser, page, procs, broken, fiatVars, op, oplog>>

\* buildLaunchOptions, chromium.launch or newContext rejects: the catch of
\* lines 203-210 resets the handles and rejects the launch promise; the
\* owner throws out of line 213 and line 214 is not reached
LaunchRejects(k) ==
  /\ Pending(launches[k])
  /\ launches' = [launches EXCEPT ![k] = "rejected"]
  /\ browser' = resetBrowserState.browser
  /\ context' = resetBrowserState.context
  /\ page' = resetBrowserState.page
  /\ callers' = OwnerResumes(k, "rejected")
  /\ lastCall' = NoCall
  /\ UNCHANGED <<initializing, procs, broken, fiatVars, op, oplog>>

\* a caller that found `initializing` set resumes from line 193-194 once
\* that promise has settled; back in ensurePage it throws when there is no
\* context (lines 163-165, 176-178)
AwaitResumes(c) ==
  /\ callers[c].at = "await"
  /\ ~Pending(launches[callers[c].on])
  /\ callers' = [callers EXCEPT ![c] =
       IF launches[callers[c].on] = "fulfilled" /\ context # 0
         THEN [@ EXCEPT !.at = "newPage", !.on = context]
         ELSE [@ EXCEPT !.at = "threw"]]
  /\ lastCall' = NoCall
  /\ UNCHANGED <<browser, context, page, initializing, launches, procs,
                 broken, fiatVars, op, oplog>>

\* context.newPage resolves (line 168 or 180): the page is stored and
\* returned
NewPageResolves(c) ==
  /\ callers[c].at = "newPage"
  /\ procs[callers[c].on] = "open"
  /\ page' = callers[c].on
  /\ callers' = [callers EXCEPT ![c] =
                   [@ EXCEPT !.at = "using", !.page = callers[c].on]]
  /\ lastCall' = NoCall
  /\ UNCHANGED <<browser, context, initializing, launches, procs, broken,
                 fiatVars, op, oplog>>

\* context.newPage rejects: inside the try (line 168) the catch resets the
\* handles and calls ensureBrowser again (lines 169-175); inside the catch
\* (line 180) the error leaves ensurePage
NewPageRejects(c) ==
  /\ callers[c].at = "newPage"
  /\ IF afterNewPageFailure(callers[c].retry) = "relaunch"
       THEN /\ browser' = resetBrowserState.browser
            /\ context' = resetBrowserState.context
            /\ page' = resetBrowserState.page
            /\ EnsureBrowser(c, resetBrowserState.browser,
                             resetBrowserState.context, TRUE)
       ELSE /\ callers' = [callers EXCEPT ![c] = [@ EXCEPT !.at = "threw"]]
            /\ UNCHANGED <<browser, context, page, initializing, launches,
                           procs>>
  /\ lastCall' = NoCall
  /\ UNCHANGED <<broken, fiatVars, op, oplog>>

\* the operation that got the page (generateQr lines 74-105, verifyPayment
\* lines 109-135) ends: it returns, or a step on the page fails and the
\* error leaves the service with the handles as they are
OperationEnds(c) ==
  /\ callers[c].at = "using"
  /\ \/ /\ callers' = [callers EXCEPT ![c] = [@ EXCEPT !.at = "returned"]]
        /\ UNCHANGED broken
     \/ /\ callers' = [callers EXCEPT ![c] = [@ EXCEPT !.at = "threw"]]
        /\ broken' = broken \cup {callers[c].page}
  /\ lastCall' = NoCall
  /\ UNCHANGED <<browser, context, page, initializing, launches, procs,
                 fiatVars, op, oplog>>

\* the call is over and its caller may call again
CallEnds(c) ==
  /\ callers[c].at \in {"returned", "threw"}
  /\ callers' = [callers EXCEPT ![c] = Idle]
  /\ lastCall' = NoCall
  /\ UNCHANGED <<browser, context, page, initializing, launches, procs,
                 broken, fiatVars, op, oplog>>

\* a Chromium process dies or loses its connection
Disconnect(k) ==
  /\ procs[k] = "open"
  /\ procs' = [procs EXCEPT ![k] = "disconnected"]
  /\ lastCall' = NoCall
  /\ UNCHANGED <<browser, context, page, initializing, launches, callers,
                 broken, fiatVars, op, oplog>>

\* Nest calls onModuleDestroy (lines 138-142)
Teardown ==
  /\ procs' = onModuleDestroy(browser, procs).procs
  /\ lastCall' = NoCall
  /\ UNCHANGED <<browser, context, page, initializing, launches, callers,
                 broken, fiatVars, op, oplog>>

Enter == \E c \in Callers : EnsurePage(c)
LaunchStep ==
  \E k \in 1..Len(launches) :
    LaunchResolves(k) \/ ContextResolves(k) \/ LaunchRejects(k)
Resume == \E c \in Callers : AwaitResumes(c) \/ CallEnds(c)
PageStep ==
  \E c \in Callers :
    NewPageResolves(c) \/ NewPageRejects(c) \/ OperationEnds(c)
Crash == \E k \in 1..Len(procs) : Disconnect(k)

\* the browser service under concurrent callers
NextBrowser ==
  \/ Enter
  \/ LaunchStep
  \/ Resume
  \/ PageStep
  \/ Crash
  \/ Teardown

SpecBrowser == Init /\ [][NextBrowser]_vars

\* the dedup registry and its clients: the two QR entry points, the clock
\* and the queue they feed (verification jobs never touch the registry)
NextRegistry ==
  \/ Tick
  \/ QueueGenerateQr
  \/ GenerateQrWithTimeout
  \/ Start
  \/ Settle
  \/ TimerFires

SpecRegistry == Init /\ [][NextRegistry]_vars

\* the promise chain and its clients within one dedup window (the queue
\* never reads the clock)
NextQueue ==
  \/ QueueGenerateQr
  \/ GenerateQrWithTimeout
  \/ QueueVerifyPayment
  \/ VerifyPaymentInline
  \/ EnqueueTask
  \/ Start
  \/ Settle
  \/ TimerFires

SpecQueue == Init /\ [][NextQueue]_vars

\* scheduling: the event loop runs every ready reaction, and every started
\* task ends
FairSpecQueue == SpecQueue /\ WF_vars(Start) /\ WF_vars(Settle)

\* ----- one browser operation, step by step (the page is at hand) -----

\* generateQr / verifyPayment is called: ensureSession, line 145
BeginOperation ==
  /\ op.pc = "idle"
  /\ \E kind \in {"generateQr", "verifyPayment"}, details \in OpDetails :
       op' = Goes([NoOperation EXCEPT !.kind = kind, !.details = details],
                  "navigate")
  /\ lastCall' = NoCall
  /\ UNCHANGED <<oplog, sessionVars, fiatVars>>

\* ensureSession, lines 146-149: the index page is loaded and the login
\* indicator looked for
Navigate ==
  /\ op.pc = "navigate" /\ op.error = "none"
  /\ \/ \E loginVisible \in BOOLEAN :
          op' = Goes([op EXCEPT !.login = loginVisible], "announcement")
     \/ op' = Fails(op, "AutomationFailure")
  /\ lastCall' = NoCall
  /\ UNCHANGED <<oplog, sessionVars, fiatVars>>

\* dismissAnnouncementModalIfPresent at lines 150, 267 and 75 / 110
Announcement ==
  /\ op.pc \in {"announcement", "announcementAfterLogin",
                "announcementBeforeFlow"}
  /\ op.error = "none"
  /\ \E visible, clickOk, hidden \in BOOLEAN :
       LET r == dismissAnnouncementModalIfPresent(visible, clickOk, hidden)
       IN /\ op' = IF r.threw THEN Fails(op, "AutomationFailure")
                              ELSE Goes(op, afterAnnouncement(op))
          /\ oplog' = oplog \cup r.warned
  /\ lastCall' = NoCall
  /\ UNCHANGED <<sessionVars, fiatVars>>

\* runLoginFlow, lines 256-263: credentials are read and submitted
Login ==
  /\ op.pc = "login" /\ op.error = "none"
  /\ \/ op' = Goes(op, "twoFactor")
     \/ op' = Fails(op, "AutomationFailure")
  /\ lastCall' = NoCall
  /\ UNCHANGED <<oplog, sessionVars, fiatVars>>

\* runLoginFlow line 265: handleTwoFactor
TwoFactor ==
  /\ op.pc = "twoFactor" /\ op.error = "none"
  /\ \E needsTwoFa, submitOk \in BOOLEAN :
       LET r == handleTwoFactor(code, needsTwoFa)
           seen == [op EXCEPT !.prompt = needsTwoFa]
       IN /\ op' = IF r.thrown THEN Fails(seen, "StepUpRequired")
                   ELSE IF r.fill # NULL /\ ~submitOk
                     THEN Fails(seen, "AutomationFailure")
                   ELSE Goes(seen, "modal")
          /\ code' = r.code
          /\ submitted' = IF r.fill = NULL THEN submitted
                          ELSE Append(submitted,
                                      [gen |-> setCodes, value |-> r.fill])
  /\ lastCall' = NoCall
  /\ UNCHANGED <<now, processedJobs, tail, tasks, notifier, log, setCodes,
                 written, reads, oplog, sessionVars>>

\* runLoginFlow line 266: dismissModalIfPresent
Modal ==
  /\ op.pc = "modal" /\ op.error = "none"
  /\ \E modalVisible, acceptOk, decisionVisible, decisionOk \in BOOLEAN :
       LET r == dismissModalIfPresent(modalVisible, acceptOk,
                                      decisionVisible, decisionOk)
       IN /\ op' = IF r.threw THEN Fails(op, "AutomationFailure")
                              ELSE Goes(op, "announcementAfterLogin")
          /\ oplog' = oplog \cup r.warned
  /\ lastCall' = NoCall
  /\ UNCHANGED <<sessionVars, fiatVars>>

\* generateQr, lines 76-99: the form is opened, checked, filled and sent
Form ==
  /\ op.pc = "form" /\ op.error = "none"
  /\ \/ op' = Goes(op, "download")
     \/ op' = Fails(op, "AutomationFailure")
  /\ lastCall' = NoCall
  /\ UNCHANGED <<oplog, sessionVars, fiatVars>>

\* generateQr, lines 100-105: the download is awaited and read
Download ==
  /\ op.pc = "download" /\ op.error = "none"
  /\ \/ \E stream \in Downloads, hasStream, mkdirOk, writeOk \in BOOLEAN :
          LET r == downloadToBase64(hasStream, stream, mkdirOk, writeOk)
          IN /\ op' = IF r.threw
                        THEN Fails(Goes([op EXCEPT !.saved = r.saved], "save"),
                                   "AutomationFailure")
                        ELSE Goes([op EXCEPT !.bytes = stream,
                                             !.out = r.out, !.saved = r.saved,
                                             !.ret = "base64"], "done")
             /\ oplog' = oplog \cup r.warned
     \/ /\ op' = Fails(op, "AutomationFailure")
        /\ UNCHANGED oplog
  /\ lastCall' = NoCall
  /\ UNCHANGED <<sessionVars, fiatVars>>

\* verifyPayment, lines 111-118: the latest movement and its receipt are
\* opened
Movement ==
  /\ op.pc = "movement" /\ op.error = "none"
  /\ \/ op' = Goes(op, "glosa")
     \/ op' = Fails(op, "AutomationFailure")
  /\ lastCall' = NoCall
  /\ UNCHANGED <<oplog, sessionVars, fiatVars>>

\* verifyPayment, lines 120-135: the memo is read and compared
Glosa ==
  /\ op.pc = "glosa" /\ op.error = "none"
  /\ \/ \E innerText \in Memos :
          op' = Goes([op EXCEPT
                        !.memo = innerText,
                        !.ret = IF verifyPaymentMatch(innerText, op.details)
                                  THEN "true" ELSE "false"], "done")
     \/ op' = Fails(op, "AutomationFailure")
  /\ lastCall' = NoCall
  /\ UNCHANGED <<oplog, sessionVars, fiatVars>>

\* the caller has the result and the next operation may start
EndOperation ==
  /\ op.pc = "done" \/ op.error # "none"
  /\ op' = NoOperation
  /\ lastCall' = NoCall
  /\ UNCHANGED <<oplog, sessionVars, fiatVars>>

\* browser operations one after the other, and the operator who supplies
\* step-up codes
NextOperation ==
  \/ SetCode
  \/ BeginOperation
  \/ Navigate
  \/ Announcement
  \/ Login
  \/ TwoFactor
  \/ Modal
  \/ Form
  \/ Download
  \/ Movement
  \/ Glosa
  \/ EndOperation

SpecOperation == InitStore /\ [][NextOperation]_vars

\* TwoFaStoreService.setCode called on the store
StoreSet ==
  /\ setCodes < MaxSetCodes
  /\ \E input \in CodeInputs :
       /\ code' = writeSlot(code, input)
       /\ written' = Append(written, input)
  /\ setCodes' = setCodes + 1
  /\ lastCall' = NoCall
  /\ UNCHANGED <<now, processedJobs, tail, tasks, notifier, log, submitted,
                 reads, browserVars>>

\* TwoFaStoreService.consumeCode called on the store
StoreConsume ==
  /\ Len(reads) < MaxReads
  /\ code' = consumeCode(code).code
  /\ reads' = Append(reads, [ret |-> consumeCode(code).ret,
                             after |-> Len(written)])
  /\ lastCall' = NoCall
  /\ UNCHANGED <<now, processedJobs, tail, tasks, notifier, log, setCodes,
                 submitted, written, browserVars>>

\* the store under any sequence of calls
NextStore ==
  \/ StoreSet
  \/ StoreConsume

SpecStore == InitStore /\ [][NextStore]_vars

\* the queue and its clients with a Notifier that may be unreachable
NextNotify ==
  \/ NextQueue
  \/ SettleUndelivered

SpecNotify == Init /\ [][NextNotify]_vars

\* QR jobs, the login they go through and the operator who supplies codes,
\* within one dedup window
NextLogin ==
  \/ SetCode
  \/ QueueGenerateQr
  \/ GenerateQrWithTimeout
  \/ Start
  \/ Settle
  \/ TimerFires

SpecLogin == InitStore /\ [][NextLogin]_vars

\* scheduling: a timer armed with setTimeout fires; nothing is assumed about
\* the tasks, which may run for ever
FairSpecTimer == SpecQueue /\ WF_vars(TimerFires)

Next ==
  \/ Tick
  \/ SetCode
  \/ QueueGenerateQr
  \/ GenerateQrWithTimeout
  \/ QueueVerifyPayment
  \/ VerifyPaymentInline
  \/ EnqueueTask
  \/ Start
  \/ Settle
  \/ SettleUndelivered
  \/ TimerFires
  \/ Enter
  \/ LaunchStep
  \/ Resume
  \/ PageStep
  \/ Crash
  \/ Teardown
  \/ StoreSet
  \/ StoreConsume
  \/ BeginOperation
  \/ Navigate
  \/ Announcement
  \/ Login
  \/ TwoFactor
  \/ Modal
  \/ Form
  \/ Download
  \/ Movement
  \/ Glosa
  \/ EndOperation

Spec == Init /\ [][Next]_vars

(* ======================= properties of the registry ==================== *)

QrTasks == {i \in 1..Len(tasks) : tasks[i].kind \in QrKinds}

\* a record or a submission is inside the 24h window at the current instant
InWindow(t) == now - t <= JOB_EXPIRY_MS

\* a submission of (orderId, details) through either entry point, as the
\* registry would answer it in the current state
Probe(kind, orderId, details) ==
  IF kind = "processGenerateQr"
    THEN enqueueQrJob(orderId, details,
                      NewTask("processGenerateQr", orderId, details, "na"))
    ELSE generateQrWithTimeoutSubmit(orderId, details,
                      NewTask("generateQr", orderId, details, "waiting"))

\* C1: exclusive QR submissions that share an orderId within the 24h window
\* schedule at most one task, and as long as the accepted one is inside the
\* window every further submission with that orderId, through either entry
\* point and whatever its details, is answered DuplicateJob.
C1_OneTaskPerOrderId ==
  /\ \A i, j \in QrTasks :
        (i < j /\ tasks[i].orderId = tasks[j].orderId)
          => tasks[j].submittedAt - tasks[i].submittedAt > JOB_EXPIRY_MS
  /\ \A i \in QrTasks :
        InWindow(tasks[i].submittedAt)
          => \A k \in QrKinds, d \in Details :
               Probe(k, tasks[i].orderId, d).result = "DuplicateJob"

\* a duplicate was just refused while the only accepted job has already run
C1_Witness ==
  /\ lastCall = "DuplicateJob"
  /\ Len(tasks) = 1
  /\ tasks[1].kind \in QrKinds
  /\ tasks[1].status = "resolved"

Blocked(orderId, details) ==
  \E k \in DOMAIN processedJobs :
    /\ InWindow(processedJobs[k].timestamp)
    /\ (processedJobs[k].orderId = orderId \/ processedJobs[k].details = details)

LiveKeys == {k \in DOMAIN processedJobs : InWindow(processedJobs[k].timestamp)}

\* C2: no two unexpired records share an orderId or a details value, and
\* tryRegisterQrJob returns false and inserts nothing when an unexpired
\* record holds the orderId or the details, and otherwise returns true and
\* inserts exactly the one record (orderId, details, now).
C2_RegistryUniqueness ==
  /\ \A k \in DOMAIN processedJobs : processedJobs[k].orderId = k
  /\ \A k1, k2 \in LiveKeys :
        k1 # k2 => processedJobs[k1].details # processedJobs[k2].details
  /\ \A o \in OrderIds, d \in Details :
        LET r == tryRegisterQrJob(processedJobs, o, d, now)
        IN IF Blocked(o, d)
             THEN /\ ~r.ok
                  /\ DOMAIN r.jobs \subseteq DOMAIN processedJobs
                  /\ \A k \in DOMAIN r.jobs : r.jobs[k] = processedJobs[k]
             ELSE /\ r.ok
                  /\ DOMAIN r.jobs = LiveKeys \cup {o}
                  /\ r.jobs[o] = [orderId |-> o, details |-> d, timestamp |-> now]
                  /\ \A k \in LiveKeys \ {o} : r.jobs[k] = processedJobs[k]

\* two unexpired records are registered and a third submission was refused
C2_Witness ==
  /\ Cardinality(LiveKeys) = 2
  /\ lastCall = "DuplicateJob"

\* C3: a record older than 24h no longer blocks: when every record that
\* holds the orderId or the details of a submission is older than 24h, the
\* registration succeeds.
C3_ExpiredRecordDoesNotBlock ==
  \A o \in OrderIds, d \in Details :
    LET holders == {k \in DOMAIN processedJobs :
                      \/ processedJobs[k].orderId = o
                      \/ processedJobs[k].details = d}
    IN (/\ holders # {}
        /\ \A k \in holders : now - processedJobs[k].timestamp > JOB_EXPIRY_MS)
         => tryRegisterQrJob(processedJobs, o, d, now).ok

\* an orderId and its details were registered again once the first record
\* was older than 24h
C3_Witness ==
  \E i, j \in QrTasks :
    /\ i < j
    /\ tasks[i].orderId = tasks[j].orderId
    /\ tasks[i].details = tasks[j].details
    /\ tasks[j].submittedAt - tasks[i].submittedAt > JOB_EXPIRY_MS
    /\ lastCall = "accepted"

\* C7: a submission answered DuplicateJob appends nothing to the pipeline
\* and leaves the queue tail unchanged (so its task is never run).
C7_DuplicateNeverQueued ==
  [][lastCall' = "DuplicateJob" => (tasks' = tasks /\ tail' = tail)]_vars

\* a duplicate was refused while the accepted job is still waiting or running
C7_Witness ==
  /\ lastCall = "DuplicateJob"
  /\ Len(tasks) = 1
  /\ tasks[1].kind \in QrKinds
  /\ ~Settled(tasks[1].status)
  /\ tail = 1

\* C8: the fire-and-forget and the deadline-bound QR entry points share one
\* registry: two accepted jobs that came through different entry points and
\* share the orderId or the details lie more than 24h apart, and while a job
\* of one entry point is inside the window the other entry point answers
\* DuplicateJob for its orderId and for its details.
C8_SharedRegistry ==
  /\ \A i, j \in QrTasks :
        (/\ i < j
         /\ tasks[i].kind # tasks[j].kind
         /\ (tasks[i].orderId = tasks[j].orderId
               \/ tasks[i].details = tasks[j].details))
          => tasks[j].submittedAt - tasks[i].submittedAt > JOB_EXPIRY_MS
  /\ \A i \in QrTasks :
        InWindow(tasks[i].submittedAt)
          => \A k \in QrKinds \ {tasks[i].kind} :
               /\ \A d \in Details :
                    Probe(k, tasks[i].orderId, d).result = "DuplicateJob"
               /\ \A o \in OrderIds :
                    Probe(k, o, tasks[i].details).result = "DuplicateJob"

\* both entry points have an accepted job in the same window (on different
\* keys), the deadline-bound one first, and a further submission was refused
C8_Witness ==
  /\ Len(tasks) = 2
  /\ tasks[1].kind = "generateQr"
  /\ tasks[2].kind = "processGenerateQr"
  /\ InWindow(tasks[1].submittedAt)
  /\ lastCall = "DuplicateJob"

(* ======================== properties of the queue ====================== *)

\* the task function of a queue entry has been called
Started(t) ==
  \/ t.status = "running"
  \/ (Settled(t.status) /\ t.outcome # "skipped")

\* C4: queued tasks start and settle in submission order: a task has not
\* left the queue before every task submitted before it has settled,
\* whatever the deadlines of their callers.
C4_FifoOrder ==
  \A i, j \in 1..Len(tasks) :
    (i < j /\ tasks[j].status # "queued") => Settled(tasks[i].status)

\* a task whose caller gave up before it ended has settled, and the task
\* submitted after it is running
C4_Witness ==
  \E i, j \in 1..Len(tasks) :
    /\ i < j
    /\ tasks[i].wait = "timeout"
    /\ Settled(tasks[i].status)
    /\ tasks[j].status = "running"

\* C5: at most one queued task is running at any time, over all entry
\* points and including tasks whose deadline-bound caller has timed out.
C5_SingleRunner ==
  Cardinality({i \in 1..Len(tasks) : tasks[i].status = "running"}) <= 1

\* a task abandoned by its caller is running and the next one is held back
C5_Witness ==
  \E i, j \in 1..Len(tasks) :
    /\ i < j
    /\ tasks[i].status = "running"
    /\ tasks[i].wait = "timeout"
    /\ tasks[j].status = "queued"

\* C6: when every started task eventually settles, every enqueued task is
\* eventually started, whether the tasks before it resolved, rejected or
\* threw synchronously.
C6_EveryTaskStarts ==
  \A i \in 1..MaxTasks :
    (Len(tasks) >= i) ~> (Len(tasks) >= i /\ Started(tasks[i]))

\* a task threw synchronously and the task after it was started
C6_Witness ==
  \E i, j \in 1..Len(tasks) :
    /\ i < j
    /\ tasks[i].outcome = "throw"
    /\ Started(tasks[j])

\* the Notifier events a job has caused, in order
EventsOf(i) ==
  LET F[n \in 0..Len(notifier)] ==
        IF n = 0 THEN << >>
        ELSE IF notifier[n].job = i THEN Append(F[n - 1], notifier[n].type)
        ELSE F[n - 1]
  IN F[Len(notifier)]

\* C9: a QR job causes the same Notifier events on both entry points:
\* QR_GENERATED on success, LOGIN_2FA_REQUIRED on StepUpRequired, none on
\* any other failure.
C9_SameNotifierEvents ==
  \A i \in QrTasks :
    Settled(tasks[i].status) =>
      EventsOf(i) = (IF tasks[i].outcome = "ok" THEN <<"QR_GENERATED">>
                     ELSE IF tasks[i].outcome = "twofa"
                       THEN <<"LOGIN_2FA_REQUIRED">>
                     ELSE << >>)

\* C10: when the deadline elapses before the task settles, the caller gets
\* the timeout indicator and the task stays where it is: the queue, its
\* tail and the state of every task are unchanged by the timer, and a task
\* only ever settles by running to one of its own outcomes.
C10_TimeoutDoesNotCancel ==
  [][/\ \A i \in 1..Len(tasks) :
          (tasks[i].wait = "waiting" /\ i <= Len(tasks')
             /\ tasks'[i].wait = "timeout")
            => /\ tasks'[i].ret = (IF tasks[i].kind = "generateQr"
                                     THEN "null" ELSE "false")
               /\ tasks' = [tasks EXCEPT ![i].wait = "timeout",
                                         ![i].ret = tasks'[i].ret]
               /\ tail' = tail
     /\ \A i \in 1..Len(tasks') :
          Settled(tasks'[i].status)
            => tasks'[i].outcome \in Outcomes(tasks'[i].kind) \cup {"throw"}
    ]_vars

\* the caller of a deadline-bound QR job got the timeout indicator, and the
\* job then ran to a successful end behind a task that was ahead of it
C10_Witness ==
  \E i, j \in 1..Len(tasks) :
    /\ i < j
    /\ Settled(tasks[i].status)
    /\ tasks[j].kind = "generateQr"
    /\ tasks[j].wait = "timeout"
    /\ tasks[j].ret = "null"
    /\ tasks[j].outcome = "ok"

(* ==================== properties of the orchestrator ==================== *)

LoggedFor(i) == \E e \in log : e.job = i

\* C11: a deadline-bound generateQr call that timed out still gets exactly
\* one terminal Notifier event for its job once the task has settled.
C11_TimedOutJobNotified ==
  \A i \in 1..Len(tasks) :
    (/\ tasks[i].kind = "generateQr"
     /\ tasks[i].wait = "timeout"
     /\ Settled(tasks[i].status)) => Len(EventsOf(i)) = 1

\* C12: a deadline-bound call always returns to its caller, also when its
\* task, or a task ahead of it, never settles.
C12_DeadlineCallReturns ==
  \A i \in 1..MaxTasks :
    (Len(tasks) >= i /\ tasks[i].kind \in DeadlineKinds)
      ~> (Len(tasks) >= i /\ tasks[i].wait # "waiting")

\* a verification call got its timeout answer while its task was still
\* queued behind a task that has not ended
C12_Witness ==
  \E i, j \in 1..Len(tasks) :
    /\ i < j
    /\ tasks[i].status = "running"
    /\ tasks[j].kind = "verifyPayment"
    /\ tasks[j].status = "queued"
    /\ tasks[j].wait = "timeout"
    /\ tasks[j].ret = "false"

FailedWhileWaiting(i) ==
  /\ tasks[i].kind \in DeadlineKinds
  /\ tasks[i].wait = "returned"
  /\ tasks[i].outcome \in Failures

\* C13 as stated: a failure that reaches a still waiting deadline-bound
\* caller is re-raised to it, the call ends with the error.
C13_FailureReRaised ==
  \A i \in 1..Len(tasks) : FailedWhileWaiting(i) => tasks[i].ret = "raised"

\* C13 as amended: such a failure is handed to handleAutomationError (one
\* LOGIN_2FA_REQUIRED event for StepUpRequired, an error log and no event
\* otherwise) and is swallowed: generateQrWithTimeout returns null and
\* verifyPaymentInline returns false.
C13_FailureSwallowed ==
  \A i \in 1..Len(tasks) :
    FailedWhileWaiting(i) =>
      /\ tasks[i].ret = (IF tasks[i].kind = "generateQr" THEN "null" ELSE "false")
      /\ IF tasks[i].outcome = "twofa"
           THEN EventsOf(i) = <<"LOGIN_2FA_REQUIRED">>
           ELSE /\ EventsOf(i) = << >>
                /\ [job |-> i, by |-> "handleAutomationError"] \in log

\* a deadline-bound QR call whose task failed with StepUpRequired in time
C13_Witness ==
  \E i \in 1..Len(tasks) :
    /\ FailedWhileWaiting(i)
    /\ tasks[i].kind = "generateQr"
    /\ tasks[i].outcome = "twofa"
    /\ tasks[i].ret = "null"

\* C14: no failure of an orchestrated task is dropped: each reaches the log
\* or the Notifier, each failure other than StepUpRequired is logged, and on
\* the fire-and-forget entry points it also produces a Notifier event.
C14_NoFailureDropped ==
  \A i \in 1..Len(tasks) :
    (tasks[i].kind # "task" /\ tasks[i].outcome \in Failures) =>
      /\ LoggedFor(i) \/ EventsOf(i) # << >>
      /\ tasks[i].outcome # "twofa" =>
           /\ LoggedFor(i)
           /\ tasks[i].kind \notin DeadlineKinds => EventsOf(i) # << >>

(* -------------------- properties of the step-up login ------------------ *)

\* the step in which the browser operation of task i ends
Settles(i) ==
  /\ i \in 1..Len(tasks)
  /\ tasks[i].status = "running"
  /\ Settled(tasks'[i].status)

\* the step in which the login of task i meets the step-up prompt while the
\* store holds no code
PromptWithoutCode(i) ==
  /\ Settles(i)
  /\ tasks'[i].prompt
  /\ ~hasCode(code)

\* C15: when the login of a QR job meets the step-up prompt and the store
\* holds no code, the job fails with StepUpRequired and the Notifier
\* receives exactly one LOGIN_2FA_REQUIRED event for it and no QR_GENERATED.
C15_StepUpNotified ==
  [][\A i \in QrTasks :
       PromptWithoutCode(i) =>
         /\ tasks'[i].outcome = "twofa"
         /\ tasks'[i].status = "rejected"
         /\ EventsOf(i)' = <<"LOGIN_2FA_REQUIRED">>]_vars

\* C16: when the prompt appears and the store has no code, the login fails
\* with StepUpRequired without an internal retry: the task ends in that
\* attempt, no code is submitted and the store is left as it was, empty.
C16_NoInternalRetry ==
  [][\A i \in 1..Len(tasks) :
       PromptWithoutCode(i) =>
         /\ tasks'[i].outcome = "twofa"
         /\ tasks'[i].status = "rejected"
         /\ submitted' = submitted
         /\ code' = code
         /\ ~hasCode(code')]_vars

\* a task failed with StepUpRequired on a store that an operator had set to
\* a blank value, and the store still holds that value
C16_Witness ==
  \E i \in 1..Len(tasks) :
    /\ tasks[i].prompt
    /\ tasks[i].outcome = "twofa"
    /\ setCodes > 0
    /\ code = << >>
    /\ submitted = << >>

\* C17: after a QR job for (orderId, details) has failed with StepUpRequired
\* and an operator has supplied a code, a retry with the same orderId and
\* details is accepted on either entry point, not rejected as DuplicateJob.
C17_RetryAccepted ==
  \A i \in QrTasks :
    (/\ tasks[i].outcome = "twofa"
     /\ setCodes > 0
     /\ hasCode(code)) =>
      \A kind \in QrKinds :
        Probe(kind, tasks[i].orderId, tasks[i].details).result = "accepted"

\* C18: consumeCode is a destructive read: in every state the store reaches,
\* a consumeCode that returns a code is followed by a consumeCode that
\* returns null, and after every login that read a code out of the store
\* the next consumeCode returns null whatever became of the submission.
C18_DestructiveRead ==
  [][/\ consumeCode(code).ret # NULL =>
          consumeCode(consumeCode(code).code).ret = NULL
     /\ Len(submitted') > Len(submitted) =>
          consumeCode(code').ret = NULL]_vars

\* a code was read by a login whose submission then failed
C18_Witness ==
  /\ Len(submitted) = 1
  /\ code = NULL
  /\ \E i \in 1..Len(tasks) : tasks[i].prompt /\ tasks[i].outcome = "error"

\* C19: each code supplied through setCode is submitted at most once: the
\* login that reads it leaves the store empty whether the submission then
\* succeeds or fails, and the next login that meets the prompt without a
\* fresh setCode fails with StepUpRequired and submits nothing.
C19_SubmittedAtMostOnce ==
  [][/\ \A m, n \in 1..Len(submitted') :
          submitted'[m].gen = submitted'[n].gen => m = n
     /\ Len(submitted') > Len(submitted) =>
          /\ code' = NULL
          /\ handleTwoFactor(code', TRUE).thrown
          /\ handleTwoFactor(code', TRUE).fill = NULL]_vars

\* the code of one setCode was submitted by a login that then failed, and
\* the following login met the prompt and failed with StepUpRequired
C19_Witness ==
  /\ setCodes = 1
  /\ Len(submitted) = 1
  /\ submitted[1].gen = 1
  /\ \E i, j \in 1..Len(tasks) :
       /\ i < j
       /\ tasks[i].prompt /\ tasks[i].outcome = "error"
       /\ tasks[j].prompt /\ tasks[j].outcome = "twofa"

(* -------------------- properties of the browser session ---------------- *)

\* the launches whose promise has not settled
InFlight == {k \in 1..Len(launches) : Pending(launches[k])}

\* the callers suspended inside ensureBrowser on a launch still in flight
WaitingOn(k) ==
  {c \in Callers : callers[c].at \in {"own", "await"} /\ callers[c].on = k}

\* C20: single-flight launch: at most one launch is in flight, it is the one
\* held in `initializing`, exactly one of the callers suspended on it has
\* started it, and a step starts a launch only when none is in flight and
\* the service holds no connected browser; every other caller waits for
\* that launch.
C20_SingleFlightLaunch ==
  [][/\ Cardinality(InFlight) <= 1
     /\ \A k \in InFlight :
          /\ initializing = k
          /\ Cardinality({c \in WaitingOn(k) : callers[c].at = "own"}) = 1
          /\ \A c \in Callers :
               callers[c].at \in {"own", "await"} /\ Pending(launches[callers[c].on])
                 => c \in WaitingOn(k)
     /\ Len(launches') > Len(launches) =>
          /\ Len(launches') = Len(launches) + 1
          /\ InFlight = {}
          /\ ~isBrowserActive(browser', context', procs')
          /\ initializing' = Len(launches')]_vars

\* the callers raced: one launch is in flight, started by one of them, and
\* the other waits for it
C20_Witness ==
  /\ Cardinality(InFlight) = 1
  /\ \E k \in InFlight :
       /\ WaitingOn(k) = Callers
       /\ Cardinality({c \in WaitingOn(k) : callers[c].at = "await"}) =
            Cardinality(Callers) - 1

\* C21: after a launch has failed nothing of the attempt is retained: the
\* handles are null and `initializing` no longer holds the rejected promise,
\* so that the next call starts a fresh launch.
C21_CleanAfterLaunchFailure ==
  \A k \in 1..Len(launches) :
    launches[k] = "rejected" =>
      /\ browser # k
      /\ context # k
      /\ initializing # k

\* the step in which caller c leaves context.newPage with a failure
NewPageFails(c) ==
  /\ callers[c].at = "newPage"
  /\ callers'[c].at \notin {"newPage", "using"}

C23_BrokenSessionNotReused ==
  [][\A c \in Callers :
       (callers[c].at = "idle" /\ callers'[c].at = "using") =>
         callers'[c].page \notin broken]_vars

\* the Chromium processes launched by the service that are still open
OpenBrowsers == {k \in 1..Len(procs) : procs[k] = "open"}

\* C24: at most one browser launched by the session manager is open.
C24_OneLiveBrowser == Cardinality(OpenBrowsers) <= 1

\* C25: onModuleDestroy closes the browser the service holds if it is open,
\* raises nothing, does nothing when no browser was ever stored, and a
\* second invocation changes nothing and raises nothing.
C25_TeardownIdempotent ==
  LET once == onModuleDestroy(browser, procs)
      twice == onModuleDestroy(browser, once.procs)
  IN /\ ~once.raised
     /\ browser # 0 => once.procs[browser] # "open"
     /\ \A k \in 1..Len(procs) : k # browser => once.procs[k] = procs[k]
     /\ browser = 0 => once.procs = procs
     /\ twice = once

\* the browser the service holds was closed by onModuleDestroy
C25_Witness ==
  /\ browser # 0
  /\ procs[browser] = "closed"

(* ------------------------ properties of the Notifier ------------------- *)

\* the webhook posts made for task i that failed
Undelivered(i) ==
  {n \in 1..Len(notifier) : notifier[n].job = i /\ ~notifier[n].delivered}

\* C28: a failed delivery is logged and changes nothing else: every task
\* settles as its browser operation ended, a deadline-bound caller gets the
\* value of that outcome, and the chain behind the task is released.
C28_DeliveryBestEffort ==
  \A i \in 1..Len(tasks) :
    Settled(tasks[i].status) /\ tasks[i].outcome # "skipped" =>
      /\ tasks[i].status =
           (IF tasks[i].outcome \in Failures THEN "rejected" ELSE "resolved")
      /\ tasks[i].wait = "returned" =>
           tasks[i].ret = InlineReturn(tasks[i].kind, tasks[i].outcome)
      /\ Undelivered(i) # {} => [job |-> i, by |-> "WebhookService"] \in log
      /\ Settled(TailState(i))

\* the QR_GENERATED post of a job failed, the job resolved all the same and
\* the task queued behind it has started
C28_Witness ==
  \E i, j \in 1..Len(tasks) :
    /\ tasks[i].kind = "processGenerateQr"
    /\ tasks[i].status = "resolved"
    /\ Undelivered(i) # {}
    /\ tasks[j].prev = i
    /\ Started(tasks[j])

(* -------------------- properties of the credential store --------------- *)

\* C29: the store is one slot and the last write wins: a consumeCode that
\* follows one or more setCode calls returns the trimmed argument of the
\* last of them, and a consumeCode that follows no setCode since the
\* previous consumeCode returns null, so no earlier code comes back.
C29_LastWriteWins ==
  \A n \in 1..Len(reads) :
    LET before == IF n = 1 THEN 0 ELSE reads[n - 1].after
    IN /\ reads[n].after > before =>
            reads[n].ret = Trim(written[reads[n].after])
       /\ (n > 1 /\ reads[n].after = before) => reads[n].ret = NULL

\* two different codes were written one after the other and then read
C29_Witness ==
  /\ Len(written) = 2
  /\ Trim(written[1]) # Trim(written[2])
  /\ Len(Trim(written[1])) > 0
  /\ Len(reads) = 2
  /\ reads[1].after = 2
  /\ reads[1].ret = Trim(written[2])
  /\ reads[2].ret = NULL

(* -------------------- properties of a browser operation ---------------- *)

\* C26: failing to dismiss an incidental dialog is never fatal: no operation
\* leaves with an error at a step that dismisses an announcement modal or a
\* confirmation / decision modal.
C26_DismissalNeverFatal ==
  op.error # "none" =>
    op.pc \notin {"announcement", "announcementAfterLogin",
                  "announcementBeforeFlow", "modal"}

\* C27 as stated: verifyPayment returns true exactly when the memo it read
\* contains the expected details.
C27_TrueIffMemoHasDetails ==
  (op.kind = "verifyPayment" /\ op.pc = "done") =>
    (op.ret = "true" <=> Includes(Trim(op.memo), op.details))

\* C27: verifyPayment returns true exactly when the trimmed memo it read
\* contains both the marker 'BM QR' and the expected details, and false
\* otherwise; once the memo is read the operation returns, so a memo that
\* does not match is a false result and never an error.
C27_TrueIffMarkerAndDetails ==
  op.kind = "verifyPayment" =>
    /\ op.pc = "done" =>
         /\ op.error = "none"
         /\ op.ret = IF /\ Includes(Trim(op.memo), BM_QR)
                        /\ Includes(Trim(op.memo), op.details)
                       THEN "true" ELSE "false"
    /\ op.error # "none" => (op.memo = << >> /\ op.ret = "raised")

\* a memo that holds the details without the marker was read and the
\* verification returned false
C27_Witness ==
  /\ op.kind = "verifyPayment"
  /\ op.pc = "done"
  /\ Includes(op.memo, op.details)
  /\ ~Includes(op.memo, BM_QR)
  /\ op.ret = "false"

\* C30: persisting the audit copy is best-effort: when mkdir or writeFile
\* fails, a warning is logged and generateQr still returns the base64 of
\* the downloaded bytes, without an error.
C30_PersistBestEffort ==
  (op.kind = "generateQr" /\ op.saved = "failed") =>
    /\ op.pc = "done"
    /\ op.error = "none"
    /\ op.ret = "base64"
    /\ op.out = toBase64(op.bytes)
    /\ "persist failed" \in oplog

\* a three-byte download could not be saved and was returned as four
\* base64 digits
C30_Witness ==
  /\ op.kind = "generateQr"
  /\ op.saved = "failed"
  /\ op.pc = "done"
  /\ Len(op.bytes) = 3
  /\ op.out = <<63, 61, 35, 63>>

(* ------------------ properties of the registry, continued -------------- *)

\* the QR jobs accepted in the 24h that end at the current instant
AcceptedInWindow == {i \in QrTasks : now - tasks[i].submittedAt <= JOB_EXPIRY_MS}

\* C31: the sweep runs inside every registration attempt: right after a QR
\* submission has been answered, accepted or DuplicateJob, the registry
\* holds no record older than 24h, and so no more records than there were
\* registrations accepted in the 24h before the attempt.
C31_SweptAfterEveryAttempt ==
  lastCall \in {"accepted", "DuplicateJob"} =>
    /\ \A k \in DOMAIN processedJobs :
         now - processedJobs[k].timestamp <= JOB_EXPIRY_MS
    /\ Cardinality(DOMAIN processedJobs) <= Cardinality(AcceptedInWindow)

\* a submission was answered DuplicateJob because of a record inside the
\* window, and the record of an older job was swept by that same attempt
C31_Witness ==
  /\ lastCall = "DuplicateJob"
  /\ Cardinality(DOMAIN processedJobs) = 1
  /\ \E i \in QrTasks :
       /\ now - tasks[i].submittedAt > JOB_EXPIRY_MS
       /\ tasks[i].orderId \notin DOMAIN processedJobs

\* C39: the window is closed at 24h: at an attempt made exactly 24h after a
\* job was accepted its record is still there, unchanged, and a submission
\* that reuses its orderId or its details is answered DuplicateJob.
C39_BoundaryStillBlocks ==
  \A i \in QrTasks :
    now - tasks[i].submittedAt = JOB_EXPIRY_MS =>
      /\ lastCall \in {"accepted", "DuplicateJob"} =>
           /\ tasks[i].orderId \in DOMAIN processedJobs
           /\ processedJobs[tasks[i].orderId].timestamp = tasks[i].submittedAt
           /\ processedJobs[tasks[i].orderId].details = tasks[i].details
      /\ \A kind \in QrKinds, o \in OrderIds, d \in Details :
           (o = tasks[i].orderId \/ d = tasks[i].details)
             => Probe(kind, o, d).result = "DuplicateJob"

\* the only job ever accepted is exactly 24h old and a submission has just
\* been answered DuplicateJob
C39_Witness ==
  /\ Len(tasks) = 1
  /\ tasks[1].kind \in QrKinds
  /\ now - tasks[1].submittedAt = JOB_EXPIRY_MS
  /\ lastCall = "DuplicateJob"

\* C34: a record leaves the registry, or changes, only in a registration
\* attempt made when it is older than 24h: no start, end or timeout of a
\* task touches it, so every QR job accepted within the last 24h still
\* has its record, whatever became of its task.
C34_RecordOutlivesTask ==
  [][/\ \A k \in DOMAIN processedJobs :
          (k \notin DOMAIN processedJobs' \/ processedJobs'[k] # processedJobs[k])
            => /\ lastCall' \in {"accepted", "DuplicateJob"}
               /\ now - processedJobs[k].timestamp > JOB_EXPIRY_MS
     /\ \A i \in 1..Len(tasks') :
          (tasks'[i].kind \in QrKinds
             /\ now' - tasks'[i].submittedAt <= JOB_EXPIRY_MS)
            => /\ tasks'[i].orderId \in DOMAIN processedJobs'
               /\ processedJobs'[tasks'[i].orderId].details = tasks'[i].details
    ]_vars

\* the only job ever accepted has failed and a submission has then been
\* answered DuplicateJob
C34_Witness ==
  /\ Len(tasks) = 1
  /\ tasks[1].kind \in QrKinds
  /\ tasks[1].status = "rejected"
  /\ tasks[1].orderId \in DOMAIN processedJobs
  /\ lastCall = "DuplicateJob"

(* ------------------- properties of the queue, continued ---------------- *)

\* a verification submitted in the current state through either entry point
VerifyProbe(kind) ==
  verifySubmit("ORD-1", "GLOSA-A",
               NewTask(kind, "ORD-1", "GLOSA-A",
                       IF kind = "verifyPayment" THEN "waiting" ELSE "na"))

\* C32: verification jobs use the plain queue: in every state, whatever the
\* registry holds and whatever is pending, a verification call on either
\* entry point is accepted, leaves the registry as it is and appends
\* exactly one task, chained on the tail, which becomes the new tail.
C32_VerificationNotExclusive ==
  \A kind \in VerifyKinds :
    LET r == VerifyProbe(kind)
        n == Len(tasks) + 1
    IN /\ r.result = "accepted"
       /\ r.jobs = processedJobs
       /\ Len(r.q.tasks) = n
       /\ SubSeq(r.q.tasks, 1, Len(tasks)) = tasks
       /\ r.q.tasks[n].kind = kind
       /\ r.q.tasks[n].prev = tail
       /\ r.q.tail = n

\* a verification was accepted while the QR job registered with the same
\* orderId and details was still pending
C32_Witness ==
  /\ Len(tasks) = 2
  /\ tasks[1].kind \in QrKinds
  /\ ~Settled(tasks[1].status)
  /\ tasks[1].orderId \in DOMAIN processedJobs
  /\ tasks[2].kind \in VerifyKinds
  /\ tasks[2].orderId = tasks[1].orderId
  /\ tasks[2].details = tasks[1].details
  /\ lastCall = "accepted"

\* C35: the promise enqueue returns carries the outcome of its own task:
\* a task that has left the queue is never called again, a settled run
\* keeps its state and its outcome, and a settled run was called and is
\* resolved when its task ended well and rejected when its task failed or
\* threw.
C35_FutureCarriesOutcome ==
  [][\A i \in 1..Len(tasks') :
       /\ Settled(tasks'[i].status) =>
            /\ tasks'[i].outcome \in Outcomes(tasks'[i].kind) \cup {"throw"}
            /\ tasks'[i].status =
                 (IF tasks'[i].outcome \in {"twofa", "error", "throw"}
                    THEN "rejected" ELSE "resolved")
       /\ i <= Len(tasks) =>
            /\ tasks[i].status # "queued" => tasks'[i].status # "queued"
            /\ Settled(tasks[i].status) =>
                 /\ tasks'[i].status = tasks[i].status
                 /\ tasks'[i].outcome = tasks[i].outcome
    ]_vars

\* a task threw when it was called, its run is rejected, and the task
\* queued behind it was called and ended well
C35_Witness ==
  \E i, j \in 1..Len(tasks) :
    /\ tasks[i].kind = "task"
    /\ tasks[i].outcome = "throw"
    /\ tasks[i].status = "rejected"
    /\ tasks[j].prev = i
    /\ tasks[j].outcome = "ok"
    /\ tasks[j].status = "resolved"

(* ---------------- properties of the orchestrator, continued ------------ *)

FireAndForget == {"processGenerateQr", "processVerifyPayment"}

\* C36: a fire-and-forget job causes at most one Notifier event:
\* QR_GENERATED only when its QR generation succeeded, VERIFICATION_RESULT
\* only when its verification ran to a match or a no-match,
\* LOGIN_2FA_REQUIRED only when its task failed with TwoFactorRequiredError;
\* every event belongs to a task that has ended, so a submission answered
\* DuplicateJob causes none.
C36_AtMostOneEvent ==
  /\ \A i \in 1..Len(tasks) :
       tasks[i].kind \in FireAndForget =>
         LET events == EventsOf(i)
             types == {events[n] : n \in 1..Len(events)}
         IN /\ Len(events) <= 1
            /\ "QR_GENERATED" \in types =>
                 (tasks[i].kind = "processGenerateQr" /\ tasks[i].outcome = "ok")
            /\ "VERIFICATION_RESULT" \in types =>
                 /\ tasks[i].kind = "processVerifyPayment"
                 /\ tasks[i].outcome \in {"true", "false"}
            /\ "LOGIN_2FA_REQUIRED" \in types => tasks[i].outcome = "twofa"
  /\ \A n \in 1..Len(notifier) :
       /\ notifier[n].job \in 1..Len(tasks)
       /\ Settled(tasks[notifier[n].job].status)

\* a QR job that met the step-up prompt without a code caused one
\* LOGIN_2FA_REQUIRED, and a verification that found no match caused one
\* VERIFICATION_RESULT
C36_Witness ==
  \E i, j \in 1..Len(tasks) :
    /\ tasks[i].kind = "processGenerateQr"
    /\ tasks[i].outcome = "twofa"
    /\ EventsOf(i) = <<"LOGIN_2FA_REQUIRED">>
    /\ tasks[j].kind = "processVerifyPayment"
    /\ tasks[j].outcome = "false"
    /\ EventsOf(j) = <<"VERIFICATION_RESULT">>

\* C37: verifyPaymentInline answers true or false and never throws; it
\* answers true only when its task resolved with a match while the caller
\* was still waiting: a timeout, a failed task and a memo that does not
\* match all give false, also when the task ends with a match later on.
C37_InlineVerificationAnswer ==
  \A i \in 1..Len(tasks) :
    (tasks[i].kind = "verifyPayment" /\ tasks[i].wait # "waiting") =>
      /\ tasks[i].ret \in {"true", "false"}
      /\ tasks[i].ret = "true" <=>
           /\ tasks[i].wait = "returned"
           /\ tasks[i].status = "resolved"
           /\ tasks[i].outcome = "true"

\* one verification timed out, was answered false and found a match
\* afterwards; another failed with StepUpRequired and was answered false
C37_Witness ==
  \E i, j \in 1..Len(tasks) :
    /\ tasks[i].kind = "verifyPayment"
    /\ tasks[i].wait = "timeout"
    /\ tasks[i].outcome = "true"
    /\ tasks[i].ret = "false"
    /\ tasks[j].kind = "verifyPayment"
    /\ tasks[j].wait = "returned"
    /\ tasks[j].outcome = "twofa"
    /\ tasks[j].ret = "false"

(* --------------- properties of a browser operation, continued ---------- *)

\* the steps of the QR flow and of the verification flow proper
FlowSteps == {"form", "download", "save", "movement", "glosa", "done"}

\* the steps of the login sub-flow, in the order runLoginFlow takes them
LoginSteps == <<"login", "twoFactor", "modal", "announcementAfterLogin">>

\* the operation has been at step a and, later, at step b
Precedes(a, b, n) ==
  \E m \in 1..(n - 1) :
    op.trace[m] = a /\ \E l \in (m + 1)..n : op.trace[l] = b

\* C33: login detection precedes automation: an operation is at a step of
\* the QR or verification flow only after it has loaded the index page
\* and, when the login indicator was visible, after it has gone through
\* the whole login sub-flow in order; an operation that failed in the
\* session or login steps has been at no step of the flow.
C33_LoginBeforeFlow ==
  /\ \A n \in 1..Len(op.trace) :
       op.trace[n] \in FlowSteps =>
         /\ op.trace[1] = "navigate"
         /\ op.trace[2] = "announcement"
         /\ op.login =>
              /\ \A k \in 1..Len(LoginSteps) :
                   \E m \in 3..(n - 1) : op.trace[m] = LoginSteps[k]
              /\ \A k \in 1..(Len(LoginSteps) - 1) :
                   Precedes(LoginSteps[k], LoginSteps[k + 1], n - 1)
         /\ ~op.login =>
              \A m \in 1..n : \A k \in 1..Len(LoginSteps) :
                op.trace[m] # LoginSteps[k]
  /\ (op.error # "none" /\ op.pc \notin FlowSteps) =>
       \A n \in 1..Len(op.trace) : op.trace[n] \notin FlowSteps

\* a QR was returned by an operation that had to log in and met the
\* step-up prompt
C33_Witness ==
  /\ op.kind = "generateQr"
  /\ op.pc = "done"
  /\ op.login
  /\ op.prompt
  /\ Len(submitted) = 1

\* C38: the stored code is taken only by a login that sees the step-up
\* prompt: apart from a setCode, the slot changes only in the handleTwoFactor
\* step of an operation whose login met the prompt; operations that need no
\* login, logins without the prompt and every other step, failing or not,
\* leave it as it is.
C38_CodeKeptUntilPrompt ==
  [][code' # code =>
       \/ setCodes' # setCodes
       \/ /\ op.pc = "twoFactor"
          /\ op'.prompt
          /\ hasCode(code)
          /\ code' = NULL
          /\ Len(submitted') = Len(submitted) + 1
    ]_vars

\* a code was supplied, an operation then logged in without meeting the
\* prompt and returned, and the code is still in the store
C38_Witness ==
  /\ setCodes > 0
  /\ hasCode(code)
  /\ op.pc = "done"
  /\ op.login
  /\ ~op.prompt
  /\ Len(submitted) = 0
====
